---------------------------- MODULE Spec2Model ----------------------------
(***************************************************************************)
(* A model of oc_pyfs: the read-only pyfilesystem adapters over an SVN     *)
(* repository (SvnFS.py) and a Nexus repository (NexusFS.py).               *)
(*                                                                         *)
(* Strings are sequences of one-character strings, so that strip, replace, *)
(* startswith, dirname, basename and the string order used by sorted() are *)
(* computed the way Python computes them.                                  *)
(***************************************************************************)
EXTENDS Integers, Sequences, FiniteSets, TLC

VARIABLES
    nodes,            \* the repository: root-relative path -> "dir" | "file"
    revs,             \* the repository's history: one entry per commit, oldest first
    constructed,      \* an SvnReadonlyFS object exists
    repo_root,        \* SvnReadonlyFS.repo_root
    branch_relative,  \* SvnReadonlyFS.branch_relative
    _work_fs,         \* NexusReadonlyFS._work_fs: whether one was given, and its files
    op                \* the last public operation: its name, argument, outcome,
                      \* value, and the events (client calls, log records) it caused

vars == <<nodes, revs, constructed, repo_root, branch_relative, _work_fs, op>>

-----------------------------------------------------------------------------
(* Bounds *)

\* longest virtual path handed to the path functions (PathSpec)
MaxStrLen == 3

\* commits made to the repository
MaxRevs == 2

\* the most files staged by the artifact adapter
MaxStaged == 2

-----------------------------------------------------------------------------
(* Python string primitives *)

SLASH == "/"

\* the characters paths are built from; "-" sorts before "/", "a" after it
Chars == {"a", "-", "/"}

\* code points, for the order sorted() uses
Ord(c) == CASE c = "-" -> 45 [] c = "/" -> 47 [] c = ":" -> 58 [] c = "a" -> 97
            [] c = "h" -> 104 [] c = "s" -> 115 [] OTHER -> 0

\* s[i:] and s[:n]
DropN(s, n) == IF n >= Len(s) THEN <<>> ELSE SubSeq(s, n + 1, Len(s))
TakeN(s, n) == IF n >= Len(s) THEN s ELSE SubSeq(s, 1, n)

\* str.startswith
StartsWith(s, pre) == Len(pre) <= Len(s) /\ TakeN(s, Len(pre)) = pre

\* str.lstrip('/')
RECURSIVE LStrip(_)
LStrip(s) == IF s # <<>> /\ Head(s) = SLASH THEN LStrip(Tail(s)) ELSE s

\* str.rstrip('/')
RECURSIVE RStrip(_)
RStrip(s) == IF s # <<>> /\ s[Len(s)] = SLASH THEN RStrip(TakeN(s, Len(s) - 1)) ELSE s

\* str.strip('/')
Strip(s) == RStrip(LStrip(s))

\* str.find(old) + 1: the position of the first occurrence of old in s, 0 if none
FindFirst(s, old) ==
    LET hits == {i \in 1..(Len(s) + 1) : StartsWith(DropN(s, i - 1), old)}
    IN IF hits = {} THEN 0 ELSE CHOOSE i \in hits : \A j \in hits : i <= j

\* str.replace(old, "", 1); with old = "" nothing is removed
ReplaceFirst(s, old) ==
    LET i == FindFirst(s, old)
    IN IF old = <<>> \/ i = 0 THEN s
       ELSE TakeN(s, i - 1) \o DropN(s, i - 1 + Len(old))

\* str.replace(old, ""): every non-overlapping occurrence, left to right
RECURSIVE ReplaceAll(_, _)
ReplaceAll(s, old) ==
    LET i == FindFirst(s, old)
    IN IF old = <<>> \/ i = 0 THEN s
       ELSE TakeN(s, i - 1) \o ReplaceAll(DropN(s, i - 1 + Len(old)), old)

\* str.rfind('/') + 1
RFindSlash(s) ==
    LET hits == {i \in 1..Len(s) : s[i] = SLASH}
    IN IF hits = {} THEN 0 ELSE CHOOSE i \in hits : \A j \in hits : i >= j

\* os.path.basename
Basename(p) == DropN(p, RFindSlash(p))

\* os.path.dirname: the head, without its trailing slashes unless it is all slashes
Dirname(p) ==
    LET head == TakeN(p, RFindSlash(p))
    IN IF head # <<>> /\ RStrip(head) # <<>> THEN RStrip(head) ELSE head

\* the order of str: by code point, a proper prefix first
RECURSIVE StrLess(_, _)
StrLess(s, t) ==
    IF t = <<>> THEN FALSE
    ELSE IF s = <<>> THEN TRUE
    ELSE IF Head(s) # Head(t) THEN Ord(Head(s)) < Ord(Head(t))
    ELSE StrLess(Tail(s), Tail(t))

\* '/'.join(parts)
RECURSIVE JoinSlash(_)
JoinSlash(parts) ==
    IF parts = <<>> THEN <<>>
    ELSE IF Len(parts) = 1 THEN parts[1]
    ELSE parts[1] \o <<SLASH>> \o JoinSlash(Tail(parts))

\* every string over Chars of length at most n
RECURSIVE StringsUpTo(_)
StringsUpTo(n) ==
    IF n = 0 THEN {<<>>}
    ELSE LET shorter == StringsUpTo(n - 1)
         IN shorter \cup {Append(s, c) : s \in {t \in shorter : Len(t) = n - 1}, c \in Chars}

-----------------------------------------------------------------------------
(* URL Composer: SvnFS.py *)

\* _join_url(*parts)
_join_url(parts) == JoinSlash([i \in 1..Len(parts) |-> Strip(parts[i])])

\* SvnReadonlyFS.get_root_path_url(repo_path)
get_root_path_url(repo_path) == _join_url(<<repo_root, Strip(repo_path)>>)

\* a composition that leaves the base out
getsyspath_without_base(rel_path) == get_root_path_url(Strip(rel_path))

\* SvnReadonlyFS.getsyspath(rel_path)
getsyspath(rel_path) ==
    get_root_path_url(_join_url(<<branch_relative, Strip(rel_path)>>))

\* SvnReadonlyFS._strip_to_base(path_from_root)
_strip_to_base(path_from_root) ==
    LStrip(ReplaceAll(path_from_root, Strip(branch_relative)))

\* SvnReadonlyFS._strip_dir_prefix(path, prefix)
_strip_dir_prefix(path, prefix) ==
    LET dir_name == Strip(prefix)
    IN IF StartsWith(path, dir_name)
       THEN LStrip(ReplaceFirst(path, dir_name))
       ELSE path

\* SvnReadonlyFS._extract_requested_path(path_from_root, branch_relative_base)
_extract_requested_path(path_from_root, branch_relative_base) ==
    _strip_dir_prefix(_strip_to_base(path_from_root), branch_relative_base)

-----------------------------------------------------------------------------
(* The repository and the pysvn client the adapter talks to *)

\* the URL of the repository root the client reports: "s://h"
RepoRootURL == <<"s", ":", "/", "/", "h">>

\* the paths the test helper creates in the repository (root-relative)
RepoPaths == { <<"a">>, <<"a", "-">>, <<"a", "/", "a">>, <<"a", "/", "a", "-">> }

\* the root-relative paths of the ancestors of path, nearest the root first
RECURSIVE Ancestors(_)
Ancestors(path) ==
    IF Dirname(path) = <<>> THEN <<>>
    ELSE Append(Ancestors(Dirname(path)), Dirname(path))

\* path lies below dir (dir = <<>> is the root)
IsBelow(path, dir) ==
    path # dir /\ (dir = <<>> \/ StartsWith(path, dir \o <<SLASH>>))

\* path is a direct child of dir
IsChildOf(path, dir) == path # <<>> /\ Dirname(path) = dir

\* the segments of a path, empty ones dropped (the client canonicalises URLs)
RECURSIVE Segments(_)
Segments(s) ==
    LET t == LStrip(s)
        cut == FindFirst(t, <<SLASH>>)
    IN IF t = <<>> THEN <<>>
       ELSE IF cut = 0 THEN <<t>>
       ELSE <<TakeN(t, cut - 1)>> \o Segments(DropN(t, cut))

\* the order in which the client lists paths: every directory's entries by
\* name, each directory's content right after the directory (depth first)
RECURSIVE SegsLess(_, _)
SegsLess(s, t) ==
    IF t = <<>> THEN FALSE
    ELSE IF s = <<>> THEN TRUE
    ELSE IF Head(s) # Head(t) THEN StrLess(Head(s), Head(t))
    ELSE SegsLess(Tail(s), Tail(t))

\* a set of paths as a sequence in the client's order
RECURSIVE ClientOrder(_)
ClientOrder(S) ==
    IF S = {} THEN <<>>
    ELSE LET m == CHOOSE x \in S : \A y \in S \ {x} : SegsLess(Segments(x), Segments(y))
         IN <<m>> \o ClientOrder(S \ {m})

\* error codes of pysvn.ClientError: pysvn.svn_err.*
ErrCodes == {"fs_not_found", "ra_illegal_url", "client_is_directory", "other"}

\* results of the model's Python functions: a value or a raised exception,
\* and the events (client calls, log records) that happened on the way
Ok(v, ev) == [exc |-> "none", codes |-> <<>>, val |-> v, ev |-> ev]
Raise(kind, ev) == [exc |-> kind, codes |-> <<>>, val |-> <<>>, ev |-> ev]
RaiseClientError(codes, ev) ==
    [exc |-> "ClientError", codes |-> codes, val |-> <<>>, ev |-> Append(ev, "ClientError")]

\* r, with the events ev before its own
After(ev, r) == [r EXCEPT !.ev = ev \o r.ev]

\* statement sequencing: if r raised, that exception propagates; otherwise the
\* rest of the function body, K, runs on r's value
Then(r, K(_)) == IF r.exc # "none" THEN r ELSE After(r.ev, K(r.val))

\* a fault of the transport: the at-th client call of an operation fails with codes
NoFault == [at |-> 0, codes |-> <<>>]
Faulty(fault, n) == fault.at = n

\* urllib.parse.quote on one character: letters, digits, "_.-~" and "/" are kept
SafeChars == {"a", "-", "/"}
QuoteChar(c) == IF c \in SafeChars THEN <<c>> ELSE <<"%", c>>
RECURSIVE Quote(_)
Quote(s) == IF s = <<>> THEN <<>> ELSE QuoteChar(Head(s)) \o Quote(Tail(s))

\* _get_pysvn_url(url): the path component escaped, scheme and host kept
_get_pysvn_url(url) ==
    LET authority == FindFirst(url, <<"/", "/">>) + 1
        rest == DropN(url, authority)
        pathAt == FindFirst(rest, <<SLASH>>)
    IN IF authority = 1 THEN Quote(url)
       ELSE IF pathAt = 0 THEN url
       ELSE TakeN(url, authority + pathAt - 1) \o Quote(DropN(rest, pathAt - 1))

\* urllib.parse.unquote, as the client decodes the URL it is given
RECURSIVE Unquote(_)
Unquote(s) ==
    IF s = <<>> THEN <<>>
    ELSE IF Head(s) = "%" THEN Unquote(Tail(s))
    ELSE <<Head(s)>> \o Unquote(Tail(s))

\* the root-relative path a URL addresses; <<>> is the root
UrlPath(url) == JoinSlash(Segments(Unquote(DropN(url, Len(RepoRootURL)))))

\* the canonical URL of a node
NodeUrl(path) == IF path = <<>> THEN RepoRootURL ELSE RepoRootURL \o <<SLASH>> \o path

\* the absolute repository path the client reports for a node
AbsPath(path) == <<SLASH>> \o path

\* pysvn.Client.info2(url, recurse=False), the n-th client call of an operation
ClientInfo2(url, n, fault) ==
    LET path == UrlPath(url)
        ev == <<"info2">>
    IN IF Faulty(fault, n) THEN RaiseClientError(fault.codes, ev)
       ELSE IF path \notin DOMAIN nodes THEN RaiseClientError(<<"ra_illegal_url">>, ev)
       ELSE Ok([URL |-> NodeUrl(path),
                repos_root_URL |-> RepoRootURL,
                kind |-> nodes[path],
                rev |-> Len(revs)], ev)

\* the entries of a listing: the node itself first, then what lies below it
\* (its children, or with recurse everything below), each with the absolute
\* path of the listed node, a slash and the relative path
ListEntries(path, recurse) ==
    LET below == {q \in DOMAIN nodes :
                    IF recurse THEN IsBelow(q, path) ELSE IsChildOf(q, path)}
        rel(q) == IF path = <<>> THEN q ELSE DropN(q, Len(path) + 1)
        ordered == ClientOrder(below)
    IN <<[repos_path |-> AbsPath(path), kind |-> nodes[path]]>> \o
       [i \in 1..Len(ordered) |->
           [repos_path |-> AbsPath(path) \o <<SLASH>> \o rel(ordered[i]),
            kind |-> nodes[ordered[i]]]]

\* pysvn.Client.list(url, recurse), the n-th client call of an operation
ClientList(url, recurse, n, fault) ==
    LET path == UrlPath(url)
        ev == <<IF recurse THEN "list_recurse" ELSE "list">>
    IN IF Faulty(fault, n) THEN RaiseClientError(fault.codes, ev)
       ELSE IF path \notin DOMAIN nodes THEN RaiseClientError(<<"fs_not_found">>, ev)
       ELSE Ok(ListEntries(path, recurse), ev)

\* pysvn.Client.cat(url), the n-th client call of an operation
ClientCat(url, n, fault) ==
    LET path == UrlPath(url)
        ev == <<"cat">>
    IN IF Faulty(fault, n) THEN RaiseClientError(fault.codes, ev)
       ELSE IF path \notin DOMAIN nodes THEN RaiseClientError(<<"fs_not_found">>, ev)
       ELSE IF nodes[path] = "dir" THEN RaiseClientError(<<"client_is_directory">>, ev)
       ELSE Ok(path, ev)

\* one change record of a commit, as pysvn reports it
ChangeRecord(path) ==
    [path |-> AbsPath(path), action |-> "A",
     copyfrom_path |-> "None", copyfrom_revision |-> "None"]

\* revision i touches the node at path or something below it
Touches(i, path) ==
    \E k \in 1..Len(revs[i].changed_paths) :
        LET changed == LStrip(revs[i].changed_paths[k].path)
        IN changed = path \/ IsBelow(changed, path)

\* the revisions touching path, newest first
RECURSIVE RevsNewestFirst(_, _)
RevsNewestFirst(i, path) ==
    IF i = 0 THEN <<>>
    ELSE (IF Touches(i, path) THEN <<revs[i]>> ELSE <<>>) \o RevsNewestFirst(i - 1, path)

\* pysvn.Client.log(url, discover_changed_paths=True, limit), the n-th client
\* call of an operation; limit 0 asks for every revision
ClientLog(url, limit, n, fault) ==
    LET path == UrlPath(url)
        ev == <<"svn_log">>
        all == RevsNewestFirst(Len(revs), path)
    IN IF Faulty(fault, n) THEN RaiseClientError(fault.codes, ev)
       ELSE IF path \notin DOMAIN nodes THEN RaiseClientError(<<"fs_not_found">>, ev)
       ELSE Ok(IF limit > 0 THEN TakeN(all, limit) ELSE all, ev)

-----------------------------------------------------------------------------
(* Error Translator: SvnFS.py *)

\* x in a Python list
InList(x, list) == \E i \in 1..Len(list) : list[i] = x

\* a translator that looks for the is-a-directory code first
_wrap_pysvn_error_dir_first(r) ==
    IF r.exc # "ClientError" THEN r
    ELSE IF InList("client_is_directory", r.codes)
         THEN [r EXCEPT !.exc = "FileExpected"]
    ELSE IF InList("fs_not_found", r.codes) \/ InList("ra_illegal_url", r.codes)
         THEN [r EXCEPT !.exc = "ResourceNotFound"]
    ELSE [r EXCEPT !.exc = "Unsupported",
                   !.ev = r.ev \o <<"logger.exception", "raise Unsupported">>]

\* a translator that logs every client error it catches
_wrap_pysvn_error_logs_all(r) ==
    IF r.exc # "ClientError" THEN r
    ELSE IF InList("fs_not_found", r.codes) \/ InList("ra_illegal_url", r.codes)
         THEN [r EXCEPT !.exc = "ResourceNotFound", !.ev = Append(r.ev, "logger.exception")]
    ELSE IF InList("client_is_directory", r.codes)
         THEN [r EXCEPT !.exc = "FileExpected", !.ev = Append(r.ev, "logger.exception")]
    ELSE [r EXCEPT !.exc = "Unsupported",
                   !.ev = r.ev \o <<"logger.exception", "raise Unsupported">>]

\* _wrap_pysvn_error(func): r is what the wrapped function did
_wrap_pysvn_error(r) ==
    IF r.exc # "ClientError" THEN r
    ELSE IF InList("fs_not_found", r.codes) \/ InList("ra_illegal_url", r.codes)
         THEN [r EXCEPT !.exc = "ResourceNotFound"]
    ELSE IF InList("client_is_directory", r.codes)
         THEN [r EXCEPT !.exc = "FileExpected"]
    ELSE [r EXCEPT !.exc = "Unsupported",
                   !.ev = r.ev \o <<"logger.exception", "raise Unsupported">>]

-----------------------------------------------------------------------------
(* Listing/Stat Engine: SvnFS.py *)

\* fs_utils.basic_path_info / dir_info / file_info
basic_path_info(name, is_dir) == [name |-> name, is_dir |-> is_dir]
dir_info(name) == basic_path_info(name, TRUE)
file_info(name) == basic_path_info(name, FALSE)

\* a listing that takes any single entry for a file
_raw_svn_ls_single_entry(rel_path, n, fault) ==
    Then(ClientList(_get_pysvn_url(getsyspath(rel_path)), FALSE, n, fault),
         LAMBDA raw_ls :
            IF Len(raw_ls) = 1
            THEN Raise("DirectoryExpected", <<>>)
            ELSE Ok(DropN(raw_ls, 1), <<>>))

\* SvnReadonlyFS._raw_svn_ls(rel_path)
_raw_svn_ls(rel_path, n, fault) ==
    Then(ClientList(_get_pysvn_url(getsyspath(rel_path)), FALSE, n, fault),
         LAMBDA raw_ls :
            IF Len(raw_ls) = 1 /\ raw_ls[1].kind = "file"
            THEN Raise("DirectoryExpected", <<>>)
            ELSE Ok(DropN(raw_ls, 1), <<>>))

\* filter(None, names)
NonEmptyNames(names) == LET Truthy(x) == x # <<>> IN SelectSeq(names, Truthy)

\* SvnReadonlyFS.listdir(rel_path)
listdir(rel_path, fault) ==
    _wrap_pysvn_error(
        Then(_raw_svn_ls(rel_path, 1, fault),
             LAMBDA raw_ls :
                Ok(NonEmptyNames([i \in 1..Len(raw_ls) |->
                      _extract_requested_path(raw_ls[i].repos_path, rel_path)]), <<>>)))

\* the entries of scandir that keep a name, as Info objects
ScanInfos(rejoined) ==
    LET Named(e) == e.name # <<>>
        MakeInfo(e) == IF e.kind = "dir" THEN dir_info(e.name) ELSE file_info(e.name)
    IN [i \in 1..Len(SelectSeq(rejoined, Named)) |-> MakeInfo(SelectSeq(rejoined, Named)[i])]

\* SvnReadonlyFS.scandir(path, namespaces, page); opts is true when namespaces
\* or page is given
scandir(path, opts, fault) ==
    _wrap_pysvn_error(
        IF opts THEN Raise("Unsupported", <<>>)
        ELSE Then(_raw_svn_ls(path, 1, fault),
                  LAMBDA raw_ls :
                     Ok(ScanInfos([i \in 1..Len(raw_ls) |->
                           [name |-> _extract_requested_path(raw_ls[i].repos_path, path),
                            kind |-> raw_ls[i].kind]]), <<>>)))

\* the open modes
ModeR == <<"r">>
ModeRB == <<"r", "b">>
ModeW == <<"w">>

\* an openbin that fetches whatever the mode
openbin_any_mode(rel_path, mode, fault) ==
    _wrap_pysvn_error(ClientCat(_get_pysvn_url(getsyspath(rel_path)), 1, fault))

\* SvnReadonlyFS.openbin(rel_path, mode)
openbin(rel_path, mode, fault) ==
    _wrap_pysvn_error(
        IF mode \notin {ModeR, ModeRB} THEN Raise("Unsupported", <<>>)
        ELSE ClientCat(_get_pysvn_url(getsyspath(rel_path)), 1, fault))

\* the names of the info namespaces
NsBasic == <<"b", "a", "s", "i", "c">>
NsSvn == <<"s", "v", "n">>
NsLog == <<"l", "o", "g">>
NsLogPrefix == <<"l", "o", "g", "_">>
NsDetails == <<"d", "e", "t", "a", "i", "l", "s">>

\* the decimal digits and their values
DigitValue(c) == CASE c = "0" -> 0 [] c = "1" -> 1 [] c = "2" -> 2 [] c = "3" -> 3
                   [] c = "4" -> 4 [] c = "5" -> 5 [] c = "6" -> 6 [] c = "7" -> 7
                   [] c = "8" -> 8 [] c = "9" -> 9 [] OTHER -> -1

\* int(s) for an unsigned decimal literal; anything else raises ValueError
IsDecimal(s) == s # <<>> /\ \A i \in 1..Len(s) : DigitValue(s[i]) >= 0
RECURSIVE DecimalValue(_)
DecimalValue(s) ==
    IF s = <<>> THEN 0
    ELSE 10 * DecimalValue(TakeN(s, Len(s) - 1)) + DigitValue(s[Len(s)])

\* SvnReadonlyFS._get_basic_info(rel_path)
_get_basic_info(rel_path, n, fault) ==
    Then(ClientInfo2(_get_pysvn_url(getsyspath(LStrip(rel_path))), n, fault),
         LAMBDA pysvn_info :
            Ok([name |-> Basename(LStrip(rel_path)),
                is_dir |-> pysvn_info.kind = "dir"], <<>>))

\* SvnReadonlyFS._get_svn_info(rel_path)
_get_svn_info(rel_path, n, fault) ==
    Then(ClientInfo2(_get_pysvn_url(getsyspath(rel_path)), n, fault),
         LAMBDA pysvn_info :
            Ok([client |-> "svn", revision |-> pysvn_info.rev], <<>>))

\* SvnReadonlyFS._exclude_unrelated_changes(entry, rel_path)
_exclude_unrelated_changes(entry, rel_path) ==
    LET change_url(change) == get_root_path_url(change.path)
        is_related(change) ==
            \/ change_url(change) = getsyspath(Strip(rel_path))
            \/ StartsWith(change_url(change), getsyspath(Strip(rel_path)))
    IN [entry EXCEPT !.changed_paths = SelectSeq(entry.changed_paths, is_related)]

\* SvnReadonlyFS._strip_entry_path(entry, rel_path)
_strip_entry_path(entry, rel_path) ==
    [entry EXCEPT !.changed_paths =
        [i \in 1..Len(entry.changed_paths) |->
            [entry.changed_paths[i] EXCEPT
                !.path = _extract_requested_path(entry.changed_paths[i].path, Strip(rel_path))]]]

\* the entries of a raw log that keep a change record, their paths stripped
FilteredLog(log_without_unrelated, rel_path) ==
    LET HasChanges(entry) == Len(entry.changed_paths) > 0
    IN [i \in 1..Len(SelectSeq(log_without_unrelated, HasChanges)) |->
           _strip_entry_path(SelectSeq(log_without_unrelated, HasChanges)[i], rel_path)]

\* a history query that fetches the whole log whatever the limit
_get_log_namespace_unlimited(rel_path, limit, n, fault) ==
    Then(ClientLog(_get_pysvn_url(getsyspath(rel_path)), 0, n, fault),
         LAMBDA raw_log :
            Ok(FilteredLog([i \in 1..Len(raw_log) |->
                              _exclude_unrelated_changes(raw_log[i], rel_path)],
                           rel_path), <<>>))

\* SvnReadonlyFS._get_log_namespace(rel_path, limit); limit -1 stands for None
_get_log_namespace(rel_path, limit, n, fault) ==
    Then(ClientLog(_get_pysvn_url(getsyspath(rel_path)),
                   IF limit > 0 THEN limit ELSE 0, n, fault),
         LAMBDA raw_log :
            Ok(FilteredLog([i \in 1..Len(raw_log) |->
                              _exclude_unrelated_changes(raw_log[i], rel_path)],
                           rel_path), <<>>))

\* a namespace getinfo accepts
NsSupported(ns) == ns \in {NsBasic, NsSvn, NsLog} \/ StartsWith(ns, NsLogPrefix)

\* the log namespaces among the requested ones
LogNamespaces(namespaces) ==
    LET IsLogNs(ns) == StartsWith(ns, NsLog) IN SelectSeq(namespaces, IsLogNs)

\* getinfo, the history part: the first log namespace decides the limit
getinfo_log(rel_path, log_namespaces, n, fault) ==
    IF log_namespaces = <<>> THEN Ok(<<>>, <<>>)
    ELSE IF log_namespaces[1] = NsLog THEN _get_log_namespace(rel_path, -1, n, fault)
    ELSE IF ~IsDecimal(ReplaceAll(log_namespaces[1], NsLogPrefix))
         THEN Raise("ValueError", <<>>)
    ELSE _get_log_namespace(rel_path,
             DecimalValue(ReplaceAll(log_namespaces[1], NsLogPrefix)), n, fault)

\* an svn part that is fetched whether it is asked for or not
getinfo_svn_always(rel_path, namespaces, fault) ==
    Then(_get_svn_info(rel_path, 2, fault), LAMBDA svn_info : Ok(<<svn_info>>, <<>>))

\* getinfo, the svn part
getinfo_svn(rel_path, namespaces, fault) ==
    IF InList(NsSvn, namespaces)
    THEN Then(_get_svn_info(rel_path, 2, fault), LAMBDA svn_info : Ok(<<svn_info>>, <<>>))
    ELSE Ok(<<>>, <<>>)

\* getinfo once namespaces is a list
getinfo_namespaces(rel_path, namespaces, fault) ==
    IF \E i \in 1..Len(namespaces) : ~NsSupported(namespaces[i])
    THEN Raise("Unsupported", <<>>)
    ELSE Then(_get_basic_info(rel_path, 1, fault), LAMBDA basic :
         Then(getinfo_svn(rel_path, namespaces, fault), LAMBDA svn :
         Then(getinfo_log(rel_path, LogNamespaces(namespaces),
                          IF InList(NsSvn, namespaces) THEN 3 ELSE 2, fault),
              LAMBDA history :
                 Ok([basic |-> basic,
                     svn |-> svn,
                     log_ns |-> TakeN(LogNamespaces(namespaces), 1),
                     change_history |-> history], <<>>))))

\* SvnReadonlyFS.getinfo(rel_path, namespaces); namespaces <<>> stands for None
getinfo(rel_path, namespaces, fault) ==
    _wrap_pysvn_error(
        getinfo_namespaces(rel_path,
            IF namespaces = <<>> THEN <<NsBasic>> ELSE namespaces, fault))

-----------------------------------------------------------------------------
(* Tree Walker: SvnFS.py, class SvnWalker *)

\* the virtual root
ROOT == <<SLASH>>

\* sorted(entries, key=lambda arg: arg[0]): a stable sort by path
RECURSIVE InsertByPath(_, _)
InsertByPath(sorted, e) ==
    IF sorted = <<>> THEN <<e>>
    ELSE IF StrLess(e.path, Head(sorted).path) THEN <<e>> \o sorted
    ELSE <<Head(sorted)>> \o InsertByPath(Tail(sorted), e)

RECURSIVE SortedByPath(_)
SortedByPath(entries) ==
    IF entries = <<>> THEN <<>>
    ELSE InsertByPath(SortedByPath(TakeN(entries, Len(entries) - 1)), entries[Len(entries)])

\* d[k] = v on a dict
DictPut(d, k, v) == [x \in (DOMAIN d) \cup {k} |-> IF x = k THEN v ELSE d[x]]

\* the body of the loop of _get_walk_steps for one entry; st holds keys_order,
\* dir_structure, files_structure and the exception raised so far
WalkEntry(st, entry_path, is_dir) ==
    IF is_dir
    THEN IF Dirname(entry_path) \notin (DOMAIN st.dir_structure) \cup {entry_path}
         THEN [st EXCEPT !.exc = "KeyError"]
         ELSE [keys_order |-> Append(st.keys_order, entry_path),
               dir_structure |->
                   [DictPut(st.dir_structure, entry_path, <<>>)
                       EXCEPT ![Dirname(entry_path)] = Append(@, Basename(entry_path))],
               files_structure |-> DictPut(st.files_structure, entry_path, <<>>),
               exc |-> "none"]
    ELSE IF Dirname(entry_path) \notin DOMAIN st.files_structure
         THEN [st EXCEPT !.exc = "KeyError"]
         ELSE [st EXCEPT !.files_structure[Dirname(entry_path)] =
                             Append(@, Basename(entry_path))]

RECURSIVE WalkLoop(_, _)
WalkLoop(st, entries) ==
    IF entries = <<>> \/ st.exc # "none" THEN st
    ELSE WalkLoop(WalkEntry(st, Head(entries).path, Head(entries).is_dir), Tail(entries))

\* make_step for every key of keys_order
MakeSteps(st) ==
    IF st.exc # "none" THEN Raise(st.exc, <<>>)
    ELSE Ok([k \in 1..Len(st.keys_order) |->
               [path |-> st.keys_order[k],
                dirs |-> [i \in 1..Len(st.dir_structure[st.keys_order[k]]) |->
                             dir_info(st.dir_structure[st.keys_order[k]][i])],
                files |-> [i \in 1..Len(st.files_structure[st.keys_order[k]]) |->
                             file_info(st.files_structure[st.keys_order[k]][i])]]], <<>>)

\* the steps of a listing taken in the order the client gave
_get_walk_steps_unsorted(svn_pathes_info) ==
    MakeSteps(WalkLoop([keys_order |-> <<ROOT>>,
                        dir_structure |-> (ROOT :> <<>>),
                        files_structure |-> (ROOT :> <<>>),
                        exc |-> "none"],
                       svn_pathes_info))

\* SvnWalker._get_walk_steps(svn_pathes_info)
_get_walk_steps(svn_pathes_info) ==
    MakeSteps(WalkLoop([keys_order |-> <<ROOT>>,
                        dir_structure |-> (ROOT :> <<>>),
                        files_structure |-> (ROOT :> <<>>),
                        exc |-> "none"],
                       SortedByPath(svn_pathes_info)))

\* entry_path of _get_listing_info: the path below root_path, '/' when nothing is left
ListingEntryPath(repos_path, root_path) ==
    IF ReplaceFirst(repos_path, root_path) = <<>> THEN ROOT
    ELSE ReplaceFirst(repos_path, root_path)

\* a listing of one level only
_get_listing_info_one_level(path, n, fault) ==
    Then(ClientList(_get_pysvn_url(path), FALSE, n, fault),
         LAMBDA raw_ls :
            IF raw_ls = <<>> THEN Raise("IndexError", <<>>)
            ELSE Ok([i \in 1..(Len(raw_ls) - 1) |->
                       [path |-> ListingEntryPath(raw_ls[i + 1].repos_path, raw_ls[1].repos_path),
                        is_dir |-> raw_ls[i + 1].kind = "dir"]], <<>>))

\* SvnWalker._get_listing_info(path, svn_client)
_get_listing_info(path, n, fault) ==
    Then(ClientList(_get_pysvn_url(path), TRUE, n, fault),
         LAMBDA raw_ls :
            IF raw_ls = <<>> THEN Raise("IndexError", <<>>)
            ELSE Ok([i \in 1..(Len(raw_ls) - 1) |->
                       [path |-> ListingEntryPath(raw_ls[i + 1].repos_path, raw_ls[1].repos_path),
                        is_dir |-> raw_ls[i + 1].kind = "dir"]], <<>>))

\* SvnWalker.__init__(filter, exclude_dirs): filtered is true when either is given
SvnWalker__init__(filtered) ==
    IF filtered THEN Raise("NameError", <<>>) ELSE Ok(<<>>, <<>>)

\* a walk that takes every spelling of the root
walk_any_root(path, fault) ==
    _wrap_pysvn_error(
        IF Strip(path) # <<>> THEN Raise("Unsupported", <<>>)
        ELSE Then(getinfo(ROOT, <<NsSvn>>, fault), LAMBDA svn_client :
             Then(_get_listing_info(getsyspath(path), 3, fault), LAMBDA listing_info :
                  _get_walk_steps(listing_info))))

\* SvnWalker.walk(fs, path)
walk(path, fault) ==
    _wrap_pysvn_error(
        IF path # ROOT THEN Raise("Unsupported", <<>>)
        ELSE Then(getinfo(ROOT, <<NsSvn>>, fault), LAMBDA svn_client :
             Then(_get_listing_info(getsyspath(path), 3, fault), LAMBDA listing_info :
                  _get_walk_steps(listing_info))))

\* SvnWalker.info(fs, path)
walker_info(path, fault) ==
    _wrap_pysvn_error(
        Then(getinfo(ROOT, <<NsSvn>>, fault), LAMBDA svn_client :
        Then(_get_listing_info(getsyspath(path), 3, fault), LAMBDA listing_data :
             Ok([i \in 1..Len(listing_data) |->
                    [path |-> listing_data[i].path,
                     info |-> IF listing_data[i].is_dir
                              THEN dir_info(listing_data[i].path)
                              ELSE file_info(listing_data[i].path)]], <<>>))))

\* the paths of the entries of a walker.info() listing that are (not) directories
PathsOfKind(listing_info, is_dir) ==
    LET Wanted(entry) == entry.info.is_dir = is_dir
    IN [i \in 1..Len(SelectSeq(listing_info, Wanted)) |->
           SelectSeq(listing_info, Wanted)[i].path]

\* a files view that yields the path of every entry
walker_files_unfiltered(path, fault) ==
    _wrap_pysvn_error(
        Then(walker_info(path, fault),
             LAMBDA listing_info :
                Ok([i \in 1..Len(listing_info) |-> listing_info[i].path], <<>>)))

\* SvnWalker.files(fs, path)
walker_files(path, fault) ==
    _wrap_pysvn_error(
        Then(walker_info(path, fault),
             LAMBDA listing_info : Ok(PathsOfKind(listing_info, FALSE), <<>>)))

\* SvnWalker.dirs(fs, path)
walker_dirs(path, fault) ==
    _wrap_pysvn_error(
        Then(walker_info(path, fault),
             LAMBDA listing_info : Ok(PathsOfKind(listing_info, TRUE), <<>>)))

\* a write operation that reports success
write_operation_allowed == Ok(<<>>, <<>>)

\* SvnReadonlyFS.makedir / remove / removedir / setinfo
write_operation == Raise("Unsupported", <<>>)

\* a constructor that lets the client's errors through as they are
SvnReadonlyFS__init__unwrapped(requested_url, fault) ==
    Then(ClientInfo2(_get_pysvn_url(requested_url), 1, fault), LAMBDA info :
    Then(ClientList(_get_pysvn_url(info.URL), FALSE, 2, fault), LAMBDA base_ls :
         IF base_ls = <<>> THEN Raise("IndexError", <<>>)
         ELSE Ok([repo_root |-> RStrip(info.repos_root_URL),
                  branch_relative |-> Strip(base_ls[1].repos_path)], <<>>)))

\* SvnReadonlyFS.__init__ with _setup_root_parameters(requested_url): the value
\* holds the repo_root and branch_relative the new object gets
SvnReadonlyFS__init__(requested_url, fault) ==
    _wrap_pysvn_error(
        Then(ClientInfo2(_get_pysvn_url(requested_url), 1, fault), LAMBDA info :
        Then(ClientList(_get_pysvn_url(info.URL), FALSE, 2, fault), LAMBDA base_ls :
             IF base_ls = <<>> THEN Raise("IndexError", <<>>)
             ELSE Ok([repo_root |-> RStrip(info.repos_root_URL),
                      branch_relative |-> Strip(base_ls[1].repos_path)], <<>>))))

-----------------------------------------------------------------------------
(* The artifact adapter: NexusFS.py *)

\* the coordinates callers pass: a stored artifact, one not stored, and one
\* without its version
GavStored == "g:a:v"
GavAbsent == "g:b:v"
GavPartial == "g:a"
Gavs == {GavStored, GavAbsent, GavPartial}

\* the bytes of the stored artifact
Content == <<"c1", "c2">>

\* the messages of the ValueErrors the client raises
Mandatory == <<"m", "a", "n", "d", "a", "t", "o", "r", "y">>
MsgMandatory == <<"v", " ">> \o Mandatory
MsgOther == <<"M">> \o Tail(Mandatory)

\* "mandatory" in str(err)
MentionsMandatory(msg) == FindFirst(msg, Mandatory) # 0

\* what the artifact client does on its own account in a call: nothing, or it
\* fails with this error after having written so many bytes of a stream
NxNoFault == [exc |-> "none", code |-> 0, msg |-> <<>>, written |-> 0]
NxFaults ==
    {NxNoFault}
    \cup {[exc |-> "NexusAPIError", code |-> c, msg |-> <<>>, written |-> w] :
             c \in {404, 500}, w \in 0..1}
    \cup {[exc |-> "ValueError", code |-> 0, msg |-> m, written |-> 0] :
             m \in {MsgMandatory, MsgOther}}

\* the error of a failing client call
NxRaise(fault, ev) ==
    [exc |-> fault.exc, val |-> <<>>, ev |-> ev,
     codes |-> IF fault.exc = "NexusAPIError" THEN <<fault.code>> ELSE <<fault.msg>>]

\* the failure of the client on a coordinate, if the transport itself works
NxNatural(gav) ==
    IF gav = GavPartial
    THEN [exc |-> "ValueError", code |-> 0, msg |-> MsgMandatory, written |-> 0]
    ELSE IF gav # GavStored
    THEN [exc |-> "NexusAPIError", code |-> 404, msg |-> <<>>, written |-> 0]
    ELSE NxNoFault

\* what happens in client.cat(gav, ...)
NxCatFault(gav, fault) == IF fault.exc # "none" THEN fault ELSE NxNatural(gav)

\* client.cat(gav, binary=True)
NexusCat(gav, fault) ==
    IF NxCatFault(gav, fault).exc # "none"
    THEN NxRaise(NxCatFault(gav, fault), <<"cat">>)
    ELSE Ok(Content, <<"cat">>)

\* the bytes client.cat(gav, stream=True, write_to=f) has written to f
NexusCatWritten(gav, fault) ==
    IF NxCatFault(gav, fault).exc # "none"
    THEN TakeN(Content, NxCatFault(gav, fault).written)
    ELSE Content

\* client.ls(wildcard)
NexusLs(fault) ==
    IF fault.exc # "none" THEN NxRaise(fault, <<"ls">>) ELSE Ok(<<GavStored>>, <<"ls">>)

\* client.exists(gav)
NexusExists(gav, fault) ==
    IF fault.exc # "none" THEN NxRaise(fault, <<"exists">>)
    ELSE Ok(gav = GavStored, <<"exists">>)

\* _wrap_nexusapi_error(fun): r is what the wrapped function did
_wrap_nexusapi_error(r) ==
    IF r.exc = "NexusAPIError"
    THEN [r EXCEPT !.exc = IF r.codes[1] = 404 THEN "ResourceNotFound" ELSE "Unsupported",
                   !.ev = Append(r.ev, "logger.exception")]
    ELSE IF r.exc = "ValueError"
    THEN [r EXCEPT !.exc = IF MentionsMandatory(r.codes[1]) THEN "FileExpected" ELSE "ValueError",
                   !.ev = Append(r.ev, "logger.exception")]
    ELSE r

\* NexusReadonlyFS.openbin reaches the client: the mode is a read mode
NexusFetches(mode) == mode \in {ModeR, ModeRB}

\* NexusReadonlyFS.openbin(gav, mode): the result
Nexus_openbin(gav, mode, fault) ==
    _wrap_nexusapi_error(
        IF ~NexusFetches(mode) THEN Raise("Unsupported", <<>>)
        ELSE IF _work_fs.given
        THEN After(<<"work_fs.openbin w">>,
                   Then(NexusCat(gav, fault),
                        LAMBDA content : Ok(NexusCatWritten(gav, fault), <<"work_fs.openbin r">>)))
        ELSE NexusCat(gav, fault))

\* an openbin that removes the staged file when the fetch failed
Nexus_openbin_staged_or_removed(gav, mode, fault) ==
    IF NexusFetches(mode) /\ _work_fs.given /\ NxCatFault(gav, fault).exc = "none"
    THEN [_work_fs EXCEPT !.files = Append(@, NexusCatWritten(gav, fault))]
    ELSE _work_fs

\* an openbin that reads from the client and leaves the staging area alone
Nexus_openbin_unstaged(gav, mode, fault) == _work_fs

\* NexusReadonlyFS.openbin(gav, mode): the staging area afterwards
Nexus_openbin_staged(gav, mode, fault) ==
    IF NexusFetches(mode) /\ _work_fs.given
    THEN [_work_fs EXCEPT !.files = Append(@, NexusCatWritten(gav, fault))]
    ELSE _work_fs

\* NexusReadonlyFS.listdir(path)
Nexus_listdir(path, fault) ==
    _wrap_nexusapi_error(
        IF path # ROOT THEN Raise("Unsupported", <<"logger.warning">>)
        ELSE After(<<"logger.warning">>, NexusLs(fault)))

\* NexusReadonlyFS.exists(path)
Nexus_exists(path, fault) == _wrap_nexusapi_error(NexusExists(path, fault))

\* NexusReadonlyFS.getinfo(path, namespaces)
Nexus_getinfo == Raise("Unsupported", <<>>)

\* NexusReadonlyFS.makedir / remove / removedir / setinfo
Nexus_write_operation == Raise("Unsupported", <<>>)

-----------------------------------------------------------------------------
(* The state machine *)

\* no operation in flight: the caller has taken the last result
Idle == [name |-> "idle", arg |-> <<>>, opt |-> <<>>, fault |-> NoFault,
         exc |-> "none", codes |-> <<>>, val |-> <<>>, ev |-> <<>>]

\* operation name(arg, opt), run with the transport failing as fault says, ended as r
Finish(name, arg, opt, fault, r) ==
    op' = [name |-> name, arg |-> arg, opt |-> opt, fault |-> fault,
           exc |-> r.exc, codes |-> r.codes, val |-> r.val, ev |-> r.ev]

\* the virtual paths callers pass
VPaths == {ROOT} \cup RepoPaths \cup { <<"a", "/">> }

\* the paths callers ask a walk from
WalkPaths == VPaths \cup { <<>>, <<"/", "/">> }

\* the URLs adapters are constructed on
BranchUrls == {RepoRootURL, RepoRootURL \o <<SLASH>>} \cup
              {RepoRootURL \o <<SLASH>> \o p : p \in RepoPaths}

\* the namespace lists callers pass to getinfo; <<>> is None
NsLists == { <<>>, <<NsSvn>>, <<NsLog>>, <<NsLogPrefix \o <<"1">> >>,
             <<NsLogPrefix \o <<"x">> >>, <<NsDetails>> }

\* the ways the transport fails: any one client call of the operation fails with
\* a code the adapter knows no kind for, or the first with two codes at once
Faults(calls) ==
    {NoFault} \cup {[at |-> k, codes |-> <<"other">>] : k \in 1..calls}
              \cup {[at |-> 1, codes |-> <<"client_is_directory", "fs_not_found">>]}

\* the changed paths of a commit creating path: the missing ancestors and path
NewPaths(path) ==
    LET Missing(q) == q \notin DOMAIN nodes
    IN Append(SelectSeq(Ancestors(path), Missing), path)

CanAdd(path) ==
    /\ op = Idle
    /\ Len(revs) < MaxRevs
    /\ path \notin DOMAIN nodes
    /\ \A i \in 1..Len(Ancestors(path)) :
          Ancestors(path)[i] \in DOMAIN nodes => nodes[Ancestors(path)[i]] = "dir"

\* a commit creating new (a sequence of paths), the last of them of this kind
Commit(new, kind) ==
    /\ nodes' = [q \in (DOMAIN nodes) \cup {new[i] : i \in 1..Len(new)} |->
                   IF q \in DOMAIN nodes THEN nodes[q]
                   ELSE IF q = new[Len(new)] THEN kind ELSE "dir"]
    /\ revs' = Append(revs, [revision |-> Len(revs) + 1,
                             changed_paths |-> [i \in 1..Len(new) |-> ChangeRecord(new[i])]])
    /\ UNCHANGED <<constructed, repo_root, branch_relative, _work_fs, op>>

\* TempRepo.add_dir(path)
AddDir(path) == CanAdd(path) /\ Commit(NewPaths(path), "dir")

\* TempRepo.add_file(path)
AddFile(path) == CanAdd(path) /\ Commit(NewPaths(path), "file")

\* the constructor ended as r: on success the object exists, with its two fields
Constructed(branch_url, fault, r) ==
    /\ op = Idle
    /\ ~constructed
    /\ Finish("__init__", branch_url, <<>>, fault, [r EXCEPT !.val = <<>>])
    /\ constructed' = (r.exc = "none")
    /\ repo_root' = IF r.exc = "none" THEN r.val.repo_root ELSE repo_root
    /\ branch_relative' = IF r.exc = "none" THEN r.val.branch_relative ELSE branch_relative
    /\ UNCHANGED <<nodes, revs, _work_fs>>

\* SvnReadonlyFS(branch_url, svn_client)
Construct(branch_url, fault) ==
    Constructed(branch_url, fault, SvnReadonlyFS__init__(branch_url, fault))

\* a public operation that resolves the adapter's base anew when it fails
Call_base_reset(name, arg, opt, fault, r) ==
    /\ op = Idle
    /\ constructed
    /\ Finish(name, arg, opt, fault, r)
    /\ branch_relative' = IF r.exc = "none" THEN branch_relative ELSE <<>>
    /\ UNCHANGED <<nodes, revs, constructed, repo_root, _work_fs>>

\* a public operation of the constructed adapter
Call(name, arg, opt, fault, r) ==
    /\ op = Idle
    /\ constructed
    /\ Finish(name, arg, opt, fault, r)
    /\ UNCHANGED <<nodes, revs, constructed, repo_root, branch_relative, _work_fs>>

GetSysPath(p) == Call("getsyspath", p, <<>>, NoFault, Ok(getsyspath(p), <<>>))

ListDir(p, fault) == Call("listdir", p, <<>>, fault, listdir(p, fault))

ScanDir(p, opts, fault) ==
    Call("scandir", p, IF opts THEN <<"namespaces">> ELSE <<>>, fault, scandir(p, opts, fault))

OpenBin(p, mode, fault) == Call("openbin", p, mode, fault, openbin(p, mode, fault))

GetInfo(p, namespaces, fault) ==
    Call("getinfo", p, namespaces, fault, getinfo(p, namespaces, fault))

\* fs.walk(path, filter=...): the walker is constructed, then walks
Walk(p, filtered, fault) ==
    Call("walk", p, IF filtered THEN <<"filter">> ELSE <<>>, fault,
         IF filtered THEN SvnWalker__init__(filtered) ELSE walk(p, fault))

WalkInfo(p, fault) == Call("walk.info", p, <<>>, fault, walker_info(p, fault))

WalkFiles(p, fault) == Call("walk.files", p, <<>>, fault, walker_files(p, fault))

WalkDirs(p, fault) == Call("walk.dirs", p, <<>>, fault, walker_dirs(p, fault))

WriteOps == {"makedir", "remove", "removedir", "setinfo"}
WriteOp(name, p) == Call(name, p, <<>>, NoFault, write_operation)

\* the caller takes the result
Return ==
    /\ op # Idle
    /\ op' = Idle
    /\ UNCHANGED <<nodes, revs, constructed, repo_root, branch_relative, _work_fs>>

Init ==
    /\ nodes = (<<>> :> "dir")
    /\ revs = <<>>
    /\ constructed = FALSE
    /\ repo_root = <<>>
    /\ branch_relative = <<>>
    /\ _work_fs = [given |-> FALSE, files |-> <<>>]
    /\ op = Idle

Next ==
    \/ \E path \in RepoPaths : AddDir(path)
    \/ \E path \in RepoPaths : AddFile(path)
    \/ \E url \in BranchUrls, fault \in Faults(2) : Construct(url, fault)
    \/ \E p \in VPaths : GetSysPath(p)
    \/ \E p \in VPaths, fault \in Faults(1) : ListDir(p, fault)
    \/ \E p \in VPaths, opts \in BOOLEAN, fault \in Faults(1) : ScanDir(p, opts, fault)
    \/ \E p \in VPaths, mode \in {ModeR, ModeRB, ModeW}, fault \in Faults(1) : OpenBin(p, mode, fault)
    \/ \E p \in VPaths, nss \in NsLists, fault \in Faults(3) : GetInfo(p, nss, fault)
    \/ \E p \in WalkPaths, filtered \in BOOLEAN, fault \in Faults(3) : Walk(p, filtered, fault)
    \/ \E p \in VPaths, fault \in Faults(3) : WalkInfo(p, fault)
    \/ \E p \in VPaths, fault \in Faults(3) : WalkFiles(p, fault)
    \/ \E p \in VPaths, fault \in Faults(3) : WalkDirs(p, fault)
    \/ \E name \in WriteOps, p \in VPaths : WriteOp(name, p)
    \/ Return

\* the adapter over a growing repository, with a transport that may fail
Spec == Init /\ [][Next]_vars

-----------------------------------------------------------------------------
(* The artifact adapter's operations, and the specifications they are in *)

\* an operation of the artifact adapter that leaves the staging area alone
NexusCall(name, arg, opt, fault, r) ==
    /\ op = Idle
    /\ Finish(name, arg, opt, fault, r)
    /\ UNCHANGED <<nodes, revs, constructed, repo_root, branch_relative, _work_fs>>

NexusOpenBin(gav, mode, fault) ==
    /\ op = Idle
    /\ NexusFetches(mode) /\ _work_fs.given => Len(_work_fs.files) < MaxStaged
    /\ Finish("nexus.openbin", gav, mode, fault, Nexus_openbin(gav, mode, fault))
    /\ _work_fs' = Nexus_openbin_staged(gav, mode, fault)
    /\ UNCHANGED <<nodes, revs, constructed, repo_root, branch_relative>>

NexusListDir(path, fault) ==
    NexusCall("nexus.listdir", path, <<>>, fault, Nexus_listdir(path, fault))

NexusExistsOp(gav, fault) ==
    NexusCall("nexus.exists", gav, <<>>, fault, Nexus_exists(gav, fault))

NexusGetInfo(gav) == NexusCall("nexus.getinfo", gav, <<>>, NxNoFault, Nexus_getinfo)

NexusWriteOp(name, gav) == NexusCall(name, gav, <<>>, NxNoFault, Nexus_write_operation)

NexusOps ==
    \/ \E gav \in Gavs, mode \in {ModeR, ModeRB, ModeW}, fault \in NxFaults :
          NexusOpenBin(gav, mode, fault)
    \/ \E path \in {ROOT, <<"a">>}, fault \in NxFaults : NexusListDir(path, fault)
    \/ \E gav \in Gavs, fault \in NxFaults : NexusExistsOp(gav, fault)
    \/ \E gav \in Gavs : NexusGetInfo(gav)
    \/ \E name \in WriteOps, gav \in Gavs : NexusWriteOp("nexus." \o name, gav)

\* the artifact adapter, constructed with or without a staging area
NexusInit ==
    /\ nodes = (<<>> :> "dir")
    /\ revs = <<>>
    /\ constructed = FALSE
    /\ repo_root = <<>>
    /\ branch_relative = <<>>
    /\ _work_fs \in {[given |-> g, files |-> <<>>] : g \in BOOLEAN}
    /\ op = Idle

NexusNext == NexusOps \/ Return

NexusSpec == NexusInit /\ [][NexusNext]_vars

\* the client errors a transport can raise: every list of one or two codes
CodeFaults ==
    {NoFault} \cup {[at |-> 1, codes |-> <<c>>] : c \in ErrCodes}
              \cup {[at |-> 1, codes |-> <<c, d>>] : c, d \in ErrCodes}

ErrNext ==
    \/ \E path \in RepoPaths : AddDir(path)
    \/ \E path \in RepoPaths : AddFile(path)
    \/ \E url \in BranchUrls : Construct(url, NoFault)
    \/ \E p \in VPaths, mode \in {ModeR, ModeW}, fault \in CodeFaults : OpenBin(p, mode, fault)
    \/ \E p \in VPaths, fault \in CodeFaults : ListDir(p, fault)
    \/ NexusOps
    \/ Return

\* both adapters, over every error their clients can raise
ErrSpec == Init /\ [][ErrNext]_vars

-----------------------------------------------------------------------------
(* The history of repositories whose commits may change unrelated paths *)

\* the paths one commit creating p and q creates: the missing ancestors, p and q
NewPathsOfPair(p, q) ==
    LET NotWithP(x) == ~InList(x, NewPaths(p))
    IN NewPaths(p) \o SelectSeq(NewPaths(q), NotWithP)

\* one commit creating two directories, neither of them in the other
AddPair(p, q) ==
    /\ CanAdd(p) /\ CanAdd(q)
    /\ p # q /\ ~InList(p, Ancestors(q)) /\ ~InList(q, Ancestors(p))
    /\ Commit(NewPathsOfPair(p, q), "dir")

\* the history namespaces callers ask getinfo for
LogNsLists == { <<NsLog>>, <<NsLogPrefix \o <<"0">> >>, <<NsLogPrefix \o <<"1">> >>,
                <<NsLogPrefix \o <<"2">> >> }

LogNext ==
    \/ \E path \in RepoPaths : AddDir(path)
    \/ \E p, q \in RepoPaths : AddPair(p, q)
    \/ \E url \in BranchUrls : Construct(url, NoFault)
    \/ \E p \in VPaths, nss \in LogNsLists : GetInfo(p, nss, NoFault)
    \/ Return

LogSpec == Init /\ [][LogNext]_vars

-----------------------------------------------------------------------------
(* The write operations of both adapters, in every state the adapters get into *)

WriteNext ==
    \/ \E path \in RepoPaths : AddDir(path)
    \/ \E path \in RepoPaths : AddFile(path)
    \/ \E url \in BranchUrls : Construct(url, NoFault)
    \/ \E name \in WriteOps, p \in VPaths : WriteOp(name, p)
    \/ \E gav \in Gavs, mode \in {ModeR, ModeW} : NexusOpenBin(gav, mode, NxNoFault)
    \/ \E name \in WriteOps, gav \in Gavs : NexusWriteOp("nexus." \o name, gav)
    \/ Return

WriteSpec == NexusInit /\ [][WriteNext]_vars

-----------------------------------------------------------------------------
(* The client calls of the operations, with every combination of namespaces *)

\* lists of the namespaces basic, svn, log and log_N, in combination
CallNsLists == { <<>>, <<NsBasic>>, <<NsSvn>>, <<NsLog>>, <<NsBasic, NsSvn>>,
                 <<NsSvn, NsBasic, NsLog>>, <<NsLogPrefix \o <<"1">>, NsSvn>>,
                 <<NsBasic, NsLogPrefix \o <<"1">> >> }

CallNext ==
    \/ \E path \in RepoPaths : AddDir(path)
    \/ AddFile(<<"a">>)
    \/ \E url \in BranchUrls, fault \in Faults(2) : Construct(url, fault)
    \/ \E p \in VPaths : GetSysPath(p)
    \/ \E p \in VPaths, fault \in Faults(1) : ListDir(p, fault)
    \/ \E p \in VPaths, opts \in BOOLEAN, fault \in Faults(1) : ScanDir(p, opts, fault)
    \/ \E p \in VPaths, mode \in {ModeR, ModeW}, fault \in Faults(1) : OpenBin(p, mode, fault)
    \/ \E p \in VPaths, nss \in CallNsLists, fault \in Faults(3) : GetInfo(p, nss, fault)
    \/ \E p \in {ROOT, <<"a">>}, fault \in Faults(3) : Walk(p, FALSE, fault)
    \/ \E name \in WriteOps, p \in VPaths : WriteOp(name, p)
    \/ Return

CallSpec == Init /\ [][CallNext]_vars

-----------------------------------------------------------------------------
(* The path mapping on its own: every virtual path, through getsyspath and back *)

\* the root-relative repository path a URL of this repository addresses
ReposPathOf(url) == DropN(url, Len(repo_root))

\* compose, then the inverse mapping with the root directory as prefix
RoundTrip(p) ==
    Call("roundtrip", p, <<>>, NoFault,
         Ok(_extract_requested_path(ReposPathOf(getsyspath(p)), ROOT), <<>>))

\* _strip_to_base on the absolute repository path the client reports for p
StripToBase(p) ==
    Call("_strip_to_base", AbsPath(p), <<>>, NoFault, Ok(_strip_to_base(AbsPath(p)), <<>>))

PathNext ==
    \/ \E path \in RepoPaths : AddDir(path)
    \/ \E url \in BranchUrls : Construct(url, NoFault)
    \/ \E p \in StringsUpTo(MaxStrLen) : RoundTrip(p)
    \/ \E p \in StringsUpTo(MaxStrLen) : GetSysPath(p)
    \/ \E p \in StringsUpTo(MaxStrLen) : StripToBase(p)
    \/ Return

PathSpec == Init /\ [][PathNext]_vars

-----------------------------------------------------------------------------
(* Directory-prefix stripping on its own: every path against every prefix *)

\* _strip_dir_prefix(path, prefix), which reads no field of the adapter
StripDirPrefix(path, prefix) ==
    /\ op = Idle
    /\ Finish("_strip_dir_prefix", path, prefix, NoFault, Ok(_strip_dir_prefix(path, prefix), <<>>))
    /\ UNCHANGED <<nodes, revs, constructed, repo_root, branch_relative, _work_fs>>

PrefixNext ==
    \/ \E path, prefix \in StringsUpTo(MaxStrLen) : StripDirPrefix(path, prefix)
    \/ Return

PrefixSpec == Init /\ [][PrefixNext]_vars

-----------------------------------------------------------------------------
(* The options of the operations of both adapters, valid and invalid *)

\* namespace lists with and without a namespace getinfo does not know
OptionNsLists == { <<>>, <<NsBasic>>, <<NsSvn>>, <<NsLog>>, <<NsLogPrefix \o <<"1">> >>,
                   <<NsDetails>>, <<NsSvn, NsDetails>>, <<NsDetails, NsLog>>,
                   <<NsLog \o <<"s">> >>, <<TakeN(NsLog, 2)>> }

\* the open modes callers pass: "r", "rb", "w" and "a"
OpenModes == {ModeR, ModeRB, ModeW, <<"a">>}

OptionNext ==
    \/ AddDir(<<"a">>)
    \/ AddFile(<<"a">>)
    \/ \E url \in {RepoRootURL, RepoRootURL \o <<SLASH, "a">>} : Construct(url, NoFault)
    \/ \E p \in VPaths, mode \in OpenModes, fault \in Faults(1) : OpenBin(p, mode, fault)
    \/ \E p \in VPaths, nss \in OptionNsLists, fault \in Faults(1) : GetInfo(p, nss, fault)
    \/ \E p \in VPaths, opts \in BOOLEAN, fault \in Faults(1) : ScanDir(p, opts, fault)
    \/ \E gav \in Gavs, mode \in OpenModes, fault \in NxFaults : NexusOpenBin(gav, mode, fault)
    \/ Return

OptionSpec == NexusInit /\ [][OptionNext]_vars

-----------------------------------------------------------------------------
(* The walker's flat views: info, files and dirs of every tree *)

ViewNext ==
    \/ \E path \in RepoPaths : AddDir(path)
    \/ \E path \in RepoPaths : AddFile(path)
    \/ \E url \in BranchUrls : Construct(url, NoFault)
    \/ \E p \in VPaths, fault \in Faults(3) : WalkInfo(p, fault)
    \/ \E p \in VPaths : WalkFiles(p, NoFault)
    \/ \E p \in VPaths : WalkDirs(p, NoFault)
    \/ Return

ViewSpec == Init /\ [][ViewNext]_vars

-----------------------------------------------------------------------------
(* Claims *)

\* how often event e is in the event sequence ev
Count(ev, e) == Cardinality({i \in 1..Len(ev) : ev[i] = e})

\* the node a virtual path addresses through the adapter
TargetPath(p) == UrlPath(getsyspath(p))

\* the children of a directory node, in the client's order
ChildrenOf(dir) == ClientOrder({q \in DOMAIN nodes : IsChildOf(q, dir)})

\* C1: round trip: for every adapter, with an empty or a non-empty base, and
\* every virtual path p, the root-relative path getsyspath(p) addresses, passed
\* through _extract_requested_path with the root directory as prefix, is p
\* without its leading and trailing slashes.
C1_RoundTrip ==
    op.name = "roundtrip" => op.val = Strip(op.arg)

\* C2: for every base and every existing directory d, listdir(d) is exactly
\* the names of d's direct children, unaltered, in the client's order.
C2_ListdirChildren ==
    (/\ op.name = "listdir"
     /\ op.fault = NoFault
     /\ TargetPath(op.arg) \in DOMAIN nodes
     /\ nodes[TargetPath(op.arg)] = "dir")
    => /\ op.exc = "none"
       /\ op.val = [i \in 1..Len(ChildrenOf(TargetPath(op.arg))) |->
                       Basename(ChildrenOf(TargetPath(op.arg))[i])]

KindOfCodes(codes) ==
    IF InList("fs_not_found", codes) \/ InList("ra_illegal_url", codes) THEN "ResourceNotFound"
    ELSE IF InList("client_is_directory", codes) THEN "FileExpected"
    ELSE "Unsupported"

\* C4: a client error of the version-control client becomes ResourceNotFound
\* when it carries a not-found or illegal-location code, else FileExpected when
\* it carries the is-a-directory code, else Unsupported; an error of the
\* artifact client with code 404 becomes ResourceNotFound, with another code
\* Unsupported, a ValueError mentioning a mandatory field FileExpected, and
\* another ValueError stays as it is; so opening a path that does not exist
\* fails with ResourceNotFound and opening a directory with FileExpected.
C4_ErrorTranslation ==
    /\ (op.name \in {"openbin", "listdir"} /\ op.codes # <<>>)
          => op.exc = KindOfCodes(op.codes)
    /\ (op.name = "openbin" /\ op.opt \in {ModeR, ModeRB} /\ op.fault = NoFault)
          => op.exc = IF TargetPath(op.arg) \notin DOMAIN nodes THEN "ResourceNotFound"
                      ELSE IF nodes[TargetPath(op.arg)] = "dir" THEN "FileExpected"
                      ELSE "none"
    /\ (op.name = "nexus.openbin" /\ NexusFetches(op.opt))
          => /\ NexusCat(op.arg, op.fault).exc = "NexusAPIError"
                => op.exc = IF NexusCat(op.arg, op.fault).codes = <<404>>
                            THEN "ResourceNotFound" ELSE "Unsupported"
             /\ NexusCat(op.arg, op.fault).exc = "ValueError"
                => /\ op.exc = IF MentionsMandatory(NexusCat(op.arg, op.fault).codes[1])
                               THEN "FileExpected" ELSE "ValueError"
                   /\ op.codes = NexusCat(op.arg, op.fault).codes
             /\ NexusCat(op.arg, op.fault).exc = "none" => op.exc = "none"

\* an open has failed with a client error carrying the is-a-directory code
\* and, after it, the not-found code, and the caller got ResourceNotFound
C4_Witness ==
    /\ op.name = "openbin"
    /\ op.codes = <<"client_is_directory", "fs_not_found">>
    /\ op.exc = "ResourceNotFound"

\* the kinds of the error taxonomy
Taxonomy == {"ResourceNotFound", "FileExpected", "DirectoryExpected", "Unsupported"}

\* C5: every public operation of the version-control adapter returns or fails
\* with one of the four kinds of the taxonomy, whatever its arguments.
C5_TaxonomyOnly ==
    op.exc \in Taxonomy \cup {"none"}

\* C6: a client error that maps to no specific kind produces exactly one log
\* record, before Unsupported is raised; a client error that maps to
\* ResourceNotFound or FileExpected, and an operation without a client error,
\* produce none.
C6_LogOnceBeforeRaise ==
    IF op.codes # <<>> /\ op.exc = "Unsupported"
    THEN /\ Count(op.ev, "logger.exception") = 1
         /\ Count(op.ev, "raise Unsupported") = 1
         /\ \E i \in 1..Len(op.ev) - 2 :
               /\ op.ev[i] = "ClientError"
               /\ op.ev[i + 1] = "logger.exception"
               /\ op.ev[i + 2] = "raise Unsupported"
    ELSE Count(op.ev, "logger.exception") = 0

\* a getinfo whose second client call failed with an unknown code has logged once
C6_Witness ==
    /\ op.name = "getinfo"
    /\ op.fault = [at |-> 2, codes |-> <<"other">>]
    /\ op.exc = "Unsupported"
    /\ Count(op.ev, "logger.exception") = 1

-----------------------------------------------------------------------------
(* The step builder on its own: every order a client may list a tree in *)

\* the non-root nodes of the repository, in every order
Orders ==
    LET S == (DOMAIN nodes) \ {<<>>}
    IN {f \in [1..Cardinality(S) -> S] : \A i, j \in DOMAIN f : f[i] = f[j] => i = j}

\* the (path, is_dir) pairs of a recursive listing of the root, in this order
WalkListing(order) ==
    [i \in 1..Len(order) |-> [path |-> AbsPath(order[i]), is_dir |-> nodes[order[i]] = "dir"]]

GetWalkSteps(order) ==
    /\ op = Idle
    /\ Finish("_get_walk_steps", WalkListing(order), <<>>, NoFault,
              _get_walk_steps(WalkListing(order)))
    /\ UNCHANGED <<nodes, revs, constructed, repo_root, branch_relative, _work_fs>>

WalkNext ==
    \/ \E path \in RepoPaths : AddDir(path)
    \/ \E path \in RepoPaths : AddFile(path)
    \/ \E order \in Orders : GetWalkSteps(order)
    \/ Return

WalkSpec == Init /\ [][WalkNext]_vars

-----------------------------------------------------------------------------
(* The order of the walk steps, over trees with names that sort around "/" *)

\* directories whose names differ in what follows "a": nothing, "-" (before
\* "/" in the order of str) and "a" (after it), some with a directory inside
OrderPaths == { <<"a">>, <<"a", "-">>, <<"a", "a">>, <<"a", "/", "a">>,
                <<"a", "-", "/", "a">> }

\* the steps of the recursive listing of the tree, as the client orders it
WalkSteps ==
    GetWalkSteps(ClientOrder((DOMAIN nodes) \ {<<>>}))

OrderNext ==
    \/ \E path \in OrderPaths : AddDir(path)
    \/ \E path \in OrderPaths : AddFile(path)
    \/ \E p, q \in OrderPaths : AddPair(p, q)
    \/ WalkSteps
    \/ Return

OrderSpec == Init /\ [][OrderNext]_vars

\* the indices of the steps of a walk at this path
StepsAt(steps, path) == {k \in 1..Len(steps) : steps[k].path = path}

\* how often name is among infos
Named(infos, name) == Cardinality({i \in 1..Len(infos) : infos[i].name = name})

\* the number of entries of a listing of this kind
EntriesOfKind(listing, is_dir) ==
    Cardinality({i \in 1..Len(listing) : listing[i].is_dir = is_dir})

RECURSIVE SumLen(_, _)
\* the number of child directories (or files) in all the steps from the k-th on
SumLen(steps, k) ==
    IF k > Len(steps) THEN [dirs |-> 0, files |-> 0]
    ELSE [dirs |-> Len(steps[k].dirs) + SumLen(steps, k + 1).dirs,
          files |-> Len(steps[k].files) + SumLen(steps, k + 1).files]

\* C7: for a recursive listing of a tree in any order, the steps start with the
\* root step; every directory of the listing is a step exactly once and there
\* are no other steps; every directory is, by base name, exactly once among the
\* child directories of its parent's step and every file exactly once among
\* the child files of its parent's step; and the steps hold no other children.
C7_WalkSteps ==
    op.name = "_get_walk_steps"
    => /\ op.exc = "none"
       /\ Len(op.val) = 1 + EntriesOfKind(op.arg, TRUE)
       /\ op.val[1].path = ROOT
       /\ \A i \in 1..Len(op.arg) :
             /\ op.arg[i].is_dir => Cardinality(StepsAt(op.val, op.arg[i].path)) = 1
             /\ Cardinality(StepsAt(op.val, Dirname(op.arg[i].path))) = 1
             /\ \A k \in StepsAt(op.val, Dirname(op.arg[i].path)) :
                   /\ Named(op.val[k].dirs, Basename(op.arg[i].path)) =
                         IF op.arg[i].is_dir THEN 1 ELSE 0
                   /\ Named(op.val[k].files, Basename(op.arg[i].path)) =
                         IF op.arg[i].is_dir THEN 0 ELSE 1
       /\ SumLen(op.val, 1).dirs = EntriesOfKind(op.arg, TRUE)
       /\ SumLen(op.val, 1).files = EntriesOfKind(op.arg, FALSE)

\* the steps of a listing that names a file before the directory it is in
C7_Witness ==
    /\ op.name = "_get_walk_steps"
    /\ Len(op.arg) >= 2
    /\ ~op.arg[1].is_dir
    /\ op.arg[2].path = Dirname(op.arg[1].path)
    /\ Len(op.val) = 2
    /\ Len(op.val[2].files) = 1

\* the names in a sequence of infos
NamesOf(infos) == {infos[i].name : i \in 1..Len(infos)}

\* C8: for every step (d, dirs, files) of a root walk, the names in dirs and
\* files are the names listdir(d) returns on the same repository, and the
\* directories among them are the directories scandir(d) returns.
C8_WalkIsListing ==
    (op.name = "walk" /\ op.exc = "none" /\ op.fault = NoFault)
    => \A k \in 1..Len(op.val) :
          /\ listdir(op.val[k].path, NoFault).exc = "none"
          /\ NamesOf(op.val[k].dirs) \cup NamesOf(op.val[k].files) =
                {listdir(op.val[k].path, NoFault).val[i] :
                    i \in 1..Len(listdir(op.val[k].path, NoFault).val)}
          /\ NamesOf(op.val[k].dirs) =
                {scandir(op.val[k].path, FALSE, NoFault).val[i].name :
                    i \in {j \in 1..Len(scandir(op.val[k].path, FALSE, NoFault).val) :
                              scandir(op.val[k].path, FALSE, NoFault).val[j].is_dir}}

\* C9: a walk from the root makes at most one recursive listing call and no
\* listing call of one level; a walk that returns its steps has made exactly
\* one recursive listing call, however many directories the tree has.
C9_OneRecursiveListing ==
    op.name = "walk"
    => /\ Count(op.ev, "list") = 0
       /\ Count(op.ev, "list_recurse") <= 1
       /\ (op.exc = "none" /\ op.opt = <<>>) => Count(op.ev, "list_recurse") = 1

\* a walk of a tree with a directory in a directory has returned its three steps
C9_Witness ==
    /\ op.name = "walk" /\ op.exc = "none" /\ op.opt = <<>>
    /\ Len(op.val) = 3
    /\ op.val[3].path = op.val[2].path \o <<SLASH, "a">>
    /\ Count(op.ev, "list_recurse") = 1

\* C10: a walk from a path other than '/' fails with Unsupported before any
\* client call; a walk from '/' is taken.
C10_WalkOnlyFromRoot ==
    (op.name = "walk" /\ op.opt = <<>>)
    => /\ op.arg # ROOT => op.exc = "Unsupported" /\ op.ev = <<>>
       /\ (op.arg = ROOT /\ op.fault = NoFault) => op.exc = "none"

\* a walk from '//' has failed with Unsupported without a client call
C10_Witness ==
    /\ op.name = "walk" /\ op.opt = <<>>
    /\ op.arg = <<SLASH, SLASH>>
    /\ op.exc = "Unsupported"
    /\ op.ev = <<>>

-----------------------------------------------------------------------------
(* Claims about the history *)

\* the operation was a history query that returned
IsHistory == op.name = "getinfo" /\ op.exc = "none" /\ op.val.log_ns # <<>>

\* the limit a history namespace stands for; 0 for 'log', which has none
HistoryLimit(ns) == IF ns = NsLog THEN 0 ELSE DecimalValue(DropN(ns, Len(NsLogPrefix)))

\* the raw log the client gives for the queried node when asked with the
\* namespace's limit
FetchedLog == ClientLog(NodeUrl(TargetPath(op.arg)), HistoryLimit(op.val.log_ns[1]), 1, NoFault).val

\* the change is a change of the node t or of a node below it
PathRelated(change, t) == LStrip(change.path) = t \/ IsBelow(LStrip(change.path), t)

\* the change records of an entry that are related to t
RelatedChanges(entry, t) ==
    LET Related(change) == PathRelated(change, t) IN SelectSeq(entry.changed_paths, Related)

\* an absolute changed path at or below t, relative to t
RelativeTo(path, t) ==
    IF LStrip(path) = t THEN <<>>
    ELSE IF t = <<>> THEN LStrip(path)
    ELSE DropN(LStrip(path), Len(t) + 1)

\* the revisions of the entries of a log, in its order
RevisionsOf(log) == [i \in 1..Len(log) |-> log[i].revision]

\* C11: in a history query for subtree s, a change record is kept if and only
\* if its path is s's path or nested under it, and an entry is retained if and
\* only if one of its records is kept: every fetched entry with n > 0 such
\* records is returned once, with n records, and one with none is not returned.
C11_RelatedChangesOnly ==
    IsHistory
    => \A i \in 1..Len(FetchedLog) :
          LET n == Len(RelatedChanges(FetchedLog[i], TargetPath(op.arg)))
              returned == {k \in 1..Len(op.val.change_history) :
                              op.val.change_history[k].revision = FetchedLog[i].revision}
          IN IF n = 0 THEN returned = {}
             ELSE /\ Cardinality(returned) = 1
                  /\ \A k \in returned : Len(op.val.change_history[k].changed_paths) = n

\* C12: every entry a history query for subtree s returns has a change record,
\* has the revision of a fetched entry, and each of its records is a record of
\* that entry for a path at or below s, with the path rewritten relative to s
\* and the other fields unchanged.
C12_HistoryRelativeToSubtree ==
    IsHistory
    => \A k \in 1..Len(op.val.change_history) :
          /\ Len(op.val.change_history[k].changed_paths) >= 1
          /\ \E i \in 1..Len(FetchedLog) :
                /\ FetchedLog[i].revision = op.val.change_history[k].revision
                /\ \A j \in 1..Len(op.val.change_history[k].changed_paths) :
                      \E c \in 1..Len(FetchedLog[i].changed_paths) :
                         /\ PathRelated(FetchedLog[i].changed_paths[c], TargetPath(op.arg))
                         /\ op.val.change_history[k].changed_paths[j] =
                               [FetchedLog[i].changed_paths[c] EXCEPT
                                  !.path = RelativeTo(@, TargetPath(op.arg))]

\* C13: getinfo with namespace 'log_N' returns a history of at most N entries,
\* for every N >= 0.
C13_AtMostN ==
    (IsHistory /\ op.val.log_ns[1] # NsLog)
    => Len(op.val.change_history) <= HistoryLimit(op.val.log_ns[1])

-----------------------------------------------------------------------------
(* Claims about the adapters' state *)

\* the names the write operations of both adapters run under
WriteNames == WriteOps \cup {"nexus." \o name : name \in WriteOps}

\* C15: makedir, remove, removedir and setinfo of both adapters fail with
\* Unsupported for every argument and in every adapter state, call no client, and
\* leave the adapter's fields, its staging area and the repository as they were
C15_WriteOpsRefused ==
    [][ op'.name \in WriteNames =>
          /\ op'.exc = "Unsupported"
          /\ op'.ev = <<>>
          /\ UNCHANGED <<nodes, revs, constructed, repo_root, branch_relative, _work_fs>>
      ]_vars

\* a write operation was refused by the artifact adapter with a file staged,
\* beside a version-control adapter constructed on a directory below the root
C15_Witness ==
    /\ op.name = "nexus.remove"
    /\ op.exc = "Unsupported"
    /\ _work_fs.files # <<>>
    /\ constructed
    /\ branch_relative # <<>>


\* the location a constructor was given is a node of the repository
LocationExists == UrlPath(op.arg) \in DOMAIN nodes

\* the transport fault of the operation struck: its client call was reached
FaultStruck == op.fault # NoFault /\ (op.fault.at = 1 \/ LocationExists)

\* the fault carries a code that means "no such location"
FaultNotFound == InList("fs_not_found", op.fault.codes) \/ InList("ra_illegal_url", op.fault.codes)

C17_RootAndBaseWriteOnce ==
    [][ /\ (~constructed /\ constructed') =>
              /\ repo_root' = RepoRootURL
              /\ branch_relative' = UrlPath(op'.arg)
        /\ constructed =>
              /\ constructed'
              /\ repo_root' = repo_root
              /\ branch_relative' = branch_relative
      ]_vars

\* an operation failed on an adapter constructed below the repository root
C17_Witness ==
    /\ constructed
    /\ branch_relative # <<>>
    /\ op.name = "listdir"
    /\ op.exc = "ResourceNotFound"


-----------------------------------------------------------------------------
(* Claims about the calls to the client *)

\* the events that are calls to the client
ClientCallEvents == {"info2", "list", "list_recurse", "cat", "svn_log"}

\* how many calls to the client are among the events ev
RECURSIVE ClientCalls(_)
ClientCalls(ev) ==
    IF ev = <<>> THEN 0
    ELSE (IF Head(ev) \in ClientCallEvents THEN 1 ELSE 0) + ClientCalls(Tail(ev))

\* the operations that reach the client
ClientOperations == {"__init__", "listdir", "scandir", "openbin", "getinfo", "walk"}

\* the client calls the operation in op makes when none of them fails
CallsOfOperation ==
    CASE op.name = "__init__" -> 2
      [] op.name \in {"listdir", "scandir", "openbin"} -> 1
      [] op.name = "getinfo" ->
            1 + (IF InList(NsSvn, op.opt) THEN 1 ELSE 0)
              + (IF LogNamespaces(op.opt) # <<>> THEN 1 ELSE 0)
      [] op.name = "walk" -> 3
      [] OTHER -> 0

\* a call that failed is the last call of its operation, and the only failed one
StopsAtFailure ==
    \A i \in 1..Len(op.ev) :
        op.ev[i] = "ClientError" =>
            /\ i > 1 /\ op.ev[i - 1] \in ClientCallEvents
            /\ \A j \in (i + 1)..Len(op.ev) : op.ev[j] \notin ClientCallEvents \cup {"ClientError"}

\* C18 as stated: every operation that reaches the client, construction too,
\* makes exactly one call to it when it succeeds
C18_OneCallPerOperation ==
    (op.name \in ClientOperations /\ op.exc = "none") => ClientCalls(op.ev) = 1

\* C18: an operation calls the client a fixed number of times, one call after
\* the other, and stops at the first call that fails: getsyspath and the write
\* operations never, listdir, scandir and openbin once, getinfo once and once
\* more for namespace svn and once more for a log namespace, a root walk three
\* times, construction twice
C18_CallsPerOperation ==
    op.name # "idle" =>
        /\ ClientCalls(op.ev) <= CallsOfOperation
        /\ op.exc = "none" => ClientCalls(op.ev) = CallsOfOperation
        /\ StopsAtFailure

\* getinfo with the namespaces svn and log made three calls
C18_Witness ==
    /\ op.name = "getinfo"
    /\ op.exc = "none"
    /\ op.ev = <<"info2", "info2", "svn_log">>


-----------------------------------------------------------------------------
(* Claims about the composition of URLs *)

\* s holds two slashes next to each other
HasDoubledSlash(s) == FindFirst(s, <<SLASH, SLASH>>) # 0

\* what follows the scheme separator "://" of a URL
AfterScheme(url) == DropN(url, FindFirst(url, <<":", SLASH, SLASH>>) + 2)

\* the non-empty ones of parts
NonEmptyParts(parts) == LET NonEmpty(s) == s # <<>> IN SelectSeq(parts, NonEmpty)

\* C19 as stated: for every base and every p the composed URL has no two
\* slashes next to each other after the scheme separator, slashes before and
\* after p change nothing, and getsyspath('dir') is getsyspath('/') followed
\* by '/dir'
C19_SingleSlashJoin ==
    op.name = "getsyspath" =>
        /\ ~HasDoubledSlash(AfterScheme(op.val))
        /\ \A q \in {Strip(op.arg), <<SLASH>> \o op.arg, op.arg \o <<SLASH>>} :
              getsyspath(q) = op.val
        /\ op.arg = <<"a">> => op.val = getsyspath(ROOT) \o <<SLASH, "a">>

\* C19: getsyspath(p) is the repository root, the base if it is not empty and p
\* without its leading and trailing slashes if that is not empty, joined with
\* one slash between them, and the root followed by one slash if both are
\* empty; slashes before and after p change nothing; when p has no doubled
\* slash inside, no two slashes are next to each other after the scheme
\* separator
C19_ComposedUrl ==
    op.name = "getsyspath" =>
        /\ op.val = IF branch_relative = <<>> /\ Strip(op.arg) = <<>>
                    THEN repo_root \o <<SLASH>>
                    ELSE JoinSlash(<<repo_root>> \o NonEmptyParts(<<branch_relative, Strip(op.arg)>>))
        /\ \A q \in {Strip(op.arg), <<SLASH>> \o op.arg, op.arg \o <<SLASH>>} :
              getsyspath(q) = op.val
        /\ ~HasDoubledSlash(Strip(op.arg)) => ~HasDoubledSlash(AfterScheme(op.val))

\* a path with slashes around it was composed below a base
C19_Witness ==
    /\ op.name = "getsyspath"
    /\ branch_relative = <<"a">>
    /\ op.arg = <<SLASH, "a", SLASH>>
    /\ op.val = RepoRootURL \o <<SLASH, "a", SLASH, "a">>


\* path without its leading slashes, and without base if it begins with base
WithoutLeadingBase(path, base) ==
    IF base # <<>> /\ StartsWith(LStrip(path), base)
    THEN LStrip(DropN(LStrip(path), Len(base)))
    ELSE LStrip(path)

\* C20: base stripping removes the base from a root-relative path once, as a
\* leading prefix: what follows the prefix is left as it is, also where the
\* base's text occurs in it again, and a path that does not begin with the
\* base only loses its leading slashes
C20_StripsLeadingBaseOnce ==
    op.name = "_strip_to_base" => op.val = WithoutLeadingBase(op.arg, branch_relative)


-----------------------------------------------------------------------------
(* Claims about directory prefixes, options and the basic namespace *)

\* C21: a base-stripped path that does not start with the requested directory
\* prefix is mapped to the empty result, and so is a path equal to the
\* directory itself
C21_ForeignPathsCollapse ==
    op.name = "_strip_dir_prefix" =>
        /\ ~StartsWith(op.arg, Strip(op.opt)) => op.val = <<>>
        /\ op.arg = Strip(op.opt) => op.val = <<>>


\* a namespace getinfo knows: basic, svn, log, or one that starts with log_
KnownNamespace(ns) == ns \in {NsBasic, NsSvn, NsLog} \/ StartsWith(ns, NsLogPrefix)

\* the operation in op was called with an option its adapter does not take
InvalidOption ==
    \/ op.name \in {"openbin", "nexus.openbin"} /\ op.opt \notin {ModeR, ModeRB}
    \/ op.name = "getinfo" /\ \E i \in 1..Len(op.opt) : ~KnownNamespace(op.opt[i])
    \/ op.name = "scandir" /\ op.opt # <<>>

\* C22: openbin with a mode other than 'r' and 'rb' (both adapters), getinfo
\* with a namespace it does not know and scandir with more than a path fail
\* with Unsupported before anything is asked of the client or the staging area;
\* an openbin that succeeds has fetched once and returns the whole content
C22_InvalidOptionsRefused ==
    /\ InvalidOption => (op.exc = "Unsupported" /\ op.ev = <<>>)
    /\ (op.name = "openbin" /\ op.exc = "none") =>
          /\ op.val = TargetPath(op.arg)
          /\ Count(op.ev, "cat") = 1 /\ ClientCalls(op.ev) = 1
    /\ (op.name = "nexus.openbin" /\ op.exc = "none") =>
          /\ op.val = Content
          /\ Count(op.ev, "cat") = 1

\* getinfo was asked for a namespace it knows and one it does not, on a path
\* that exists
C22_Witness ==
    /\ op.name = "getinfo"
    /\ op.opt = <<NsSvn, NsDetails>>
    /\ TargetPath(op.arg) \in DOMAIN nodes
    /\ op.exc = "Unsupported"
    /\ op.ev = <<>>


\* C24: for every existing path below the adapter's root, in every spelling,
\* getinfo returns a basic namespace whose name is the last segment of the path
\* and whose is_dir says whether the client reports a directory, whatever
\* namespaces were asked for
C24_BasicNameIsLastSegment ==
    (op.name = "getinfo" /\ op.exc = "none" /\ Strip(op.arg) # <<>>) =>
        /\ op.val.basic.name = Basename(Strip(op.arg))
        /\ op.val.basic.is_dir = (nodes[TargetPath(op.arg)] = "dir")

-----------------------------------------------------------------------------
(* Claims about the artifact adapter's staging area *)

\* C23: opening a stored artifact with a read mode succeeds and returns the
\* bytes the client supplied, with a staging area and without; with a staging
\* area the area gains exactly one file, holding those bytes, and without one
\* nothing is staged
C23_OpenStagesOneFile ==
    [][ op'.name = "nexus.openbin" =>
          /\ (op'.arg = GavStored /\ op'.fault = NxNoFault /\ op'.opt \in {ModeR, ModeRB})
                => op'.exc = "none"
          /\ op'.exc = "none" =>
                /\ op'.val = Content
                /\ _work_fs'.given = _work_fs.given
                /\ _work_fs'.files = IF _work_fs.given
                                     THEN Append(_work_fs.files, Content)
                                     ELSE _work_fs.files
      ]_vars

\* the first artifact opened through a staging area
C23_Witness ==
    /\ op.name = "nexus.openbin"
    /\ op.exc = "none"
    /\ op.val = Content
    /\ _work_fs.given
    /\ _work_fs.files = <<Content>>


\* s is the beginning of t
IsPrefixOf(s, t) == Len(s) <= Len(t) /\ SubSeq(t, 1, Len(s)) = s

\* C27: no step removes or changes a staged file; every openbin with a read
\* mode on an adapter with a staging area adds exactly one file to the area,
\* also when the fetch failed: then the file is empty or holds the beginning of
\* the content, and the caller gets the error as the translator leaves it
\* (never the client's own NexusAPIError); every other step adds none
C27_StagedFilesAccumulate ==
    [][ /\ IsPrefixOf(_work_fs.files, _work_fs'.files)
        /\ _work_fs'.given = _work_fs.given
        /\ Len(_work_fs'.files) - Len(_work_fs.files) =
              IF op'.name = "nexus.openbin" /\ op'.opt \in {ModeR, ModeRB} /\ _work_fs.given
              THEN 1 ELSE 0
        /\ (op'.name = "nexus.openbin" /\ op'.opt \in {ModeR, ModeRB} /\ _work_fs.given
              /\ op'.exc # "none") =>
              /\ _work_fs'.files[Len(_work_fs'.files)] \in {<<>>, TakeN(Content, 1)}
              /\ op'.exc \in {"ResourceNotFound", "Unsupported", "FileExpected", "ValueError"}
      ]_vars

\* a fetch that failed half way left its partial file beside a complete one
C27_Witness ==
    /\ op.name = "nexus.openbin"
    /\ op.exc = "ResourceNotFound"
    /\ _work_fs.files = <<Content, TakeN(Content, 1)>>


-----------------------------------------------------------------------------
(* Claims about the walker's order and its flat views *)

\* the depth of the directory of a step: 0 for the root
StepDepth(path) == IF path = ROOT THEN 0 ELSE Count(path, SLASH)

\* the directory of step j is the directory of step i or lies in it
StepWithin(steps, j, i) ==
    \/ steps[i].path = ROOT
    \/ steps[j].path = steps[i].path
    \/ StartsWith(steps[j].path, steps[i].path \o <<SLASH>>)

\* every directory's step comes after the step of its parent
ParentsFirst(steps) ==
    \A j \in 2..Len(steps) :
        \E i \in 1..(j - 1) : steps[i].path = Dirname(steps[j].path)

\* depth first, pre-order: the steps of what lies in a directory follow the
\* directory's step without a step from elsewhere between them
DepthFirst(steps) ==
    \A i, j, k \in 1..Len(steps) :
        (i < j /\ j < k /\ StepWithin(steps, k, i)) => StepWithin(steps, j, i)

\* breadth first: no step of a directory nearer the root after a deeper one
BreadthFirst(steps) ==
    \A i, j \in 1..Len(steps) :
        i < j => StepDepth(steps[i].path) <= StepDepth(steps[j].path)

\* C25: for every tree, the steps start with the root, every directory's step
\* comes after its parent's, and the order of the steps is one a depth-first
\* (pre-order) or a breadth-first traversal of the tree gives
C25_StepsInTraversalOrder ==
    (op.name = "_get_walk_steps" /\ op.exc = "none") =>
        /\ op.val[1].path = ROOT
        /\ ParentsFirst(op.val)
        /\ DepthFirst(op.val) \/ BreadthFirst(op.val)


\* the nodes below the node the walked path addresses
WalkedNodes == {q \in DOMAIN nodes : IsBelow(q, TargetPath(op.arg))}

\* the path a view gives the node q: from the walked path, with a leading slash
ViewPath(q) ==
    AbsPath(IF TargetPath(op.arg) = <<>> THEN q ELSE DropN(q, Len(TargetPath(op.arg)) + 1))

\* the paths of the walked nodes that are (not) directories
ViewPathsOfKind(is_dir) == {ViewPath(q) : q \in {n \in WalkedNodes : (nodes[n] = "dir") = is_dir}}

\* C26: info() yields every entry below the walked root exactly once, as its
\* full path with an Info named by that path and flagged as the entry is, and
\* never the root itself; files() yields exactly the paths of the entries that
\* are no directories and dirs() exactly those of the directories, each once
C26_FlatViewsPartition ==
    /\ (op.name = "walk.info" /\ op.exc = "none") =>
          /\ Len(op.val) = Cardinality(WalkedNodes)
          /\ \A q \in WalkedNodes :
                \E i \in 1..Len(op.val) :
                    /\ op.val[i].path = ViewPath(q)
                    /\ op.val[i].info = [name |-> ViewPath(q), is_dir |-> nodes[q] = "dir"]
          /\ \A i \in 1..Len(op.val) : op.val[i].path # ROOT
    /\ (op.name = "walk.files" /\ op.exc = "none") =>
          /\ Len(op.val) = Cardinality(ViewPathsOfKind(FALSE))
          /\ {op.val[i] : i \in 1..Len(op.val)} = ViewPathsOfKind(FALSE)
    /\ (op.name = "walk.dirs" /\ op.exc = "none") =>
          /\ Len(op.val) = Cardinality(ViewPathsOfKind(TRUE))
          /\ {op.val[i] : i \in 1..Len(op.val)} = ViewPathsOfKind(TRUE)

\* the files of a tree with a file in a directory, seen from the root
C26_Witness ==
    /\ op.name = "walk.files"
    /\ op.arg = ROOT
    /\ branch_relative = <<>>
    /\ op.exc = "none"
    /\ op.val = << <<SLASH, "a", SLASH, "a">> >>

=============================================================================
